---- MODULE Spec2Model ----
(***************************************************************************)
(* A model of pitcher (src/pitcher/core.py, src/pitcher.py): the SP-1200   *)
(* emulation pipeline.                                                     *)
(*                                                                         *)
(* Two specifications share the variables below.                           *)
(*   FnSpec  applies the pure stage functions (adjust_pitch, manual_pitch, *)
(*           zero_order_hold, q, scipy_resample, the output resample and   *)
(*           write_audio) to inputs drawn from bounded sets.               *)
(*   Spec    runs pitch(): validation, load, process_array stage by stage  *)
(*           for each channel, recombination and write_audio.              *)
(*                                                                         *)
(* Numbers.  Samples are integers counting units of the float64 grid; the  *)
(* amplitude 1.0 is U units.  Tuning ratios are fixed-point numbers with   *)
(* SCALE units per 1.0; for the lengths and offsets used here the rounded  *)
(* products agree with the double-precision products of the program.       *)
(***************************************************************************)
EXTENDS Integers, Naturals, Sequences, FiniteSets, TLC

VARIABLES call, rets,
          cfg, pc, chan, ppc, len, resampledLen, trace, ofilter, stretches,
          errlog, files, writeCalls, raisedAt

fnvars == <<call, rets>>
pipevars == <<cfg, pc, chan, ppc, len, resampledLen, trace, ofilter, stretches,
              errlog, files, writeCalls, raisedAt>>
vars == <<call, rets,
          cfg, pc, chan, ppc, len, resampledLen, trace, ofilter, stretches,
          errlog, files, writeCalls, raisedAt>>

(***************************************************************************)
(* Bounds of the model.                                                    *)
(***************************************************************************)
MaxDown == 10          \* lowest semitone offset is -MaxDown
MaxUp == 3             \* highest semitone offset
MaxInputLen == 51      \* longest input channel of a pitch() run
MaxBufLen == 4          \* longest sample buffer handed to a pure function
MaxQLen == 2            \* longest buffer handed to the quantizer
MaxBits == 3            \* largest quantize_bits
MaxK == 3               \* largest zero-order-hold multiplier
MaxRateLen == 420       \* longest buffer length handed to a resampler
MaxPathLen == 3         \* most components of an output path
MantissaLoss == 4       \* float64 grid points per float32 grid point

(***************************************************************************)
(* Program constants.                                                      *)
(***************************************************************************)
ZOH_MULTIPLIER == 4
RESAMPLE_MULTIPLIER == 2
INPUT_SR == 96000
OUTPUT_SR == 48000
SP_SR == 26040
OUTPUT_FILTER_TYPES == <<"lp1", "lp2", "moog">>

\* fixed-point denominator of the tuning ratios
SCALE == 10^4
\* 1.02930223664 in units of 1/SCALE
POSITIVE_TUNING_RATIO == 10293
\* the tabulated ratios in units of 1/SCALE
NEGATIVE_TUNING_RATIOS ==
    [s \in -8..-1 |->
        CASE s = -1 -> 10565
          [] s = -2 -> 11215
          [] s = -3 -> 11835
          [] s = -4 -> 12532
          [] s = -5 -> 13310
          [] s = -6 -> 14040
          [] s = -7 -> 15028
          [] s = -8 -> 15767]

(***************************************************************************)
(* Arithmetic helpers.                                                     *)
(***************************************************************************)
Abs(a) == IF a < 0 THEN -a ELSE a

\* np.round / round(): a/b rounded to the nearest integer, halves to even
\* (a any integer, b > 0)
RoundHalfEven(a, b) ==
    LET fl == a \div b
        r2 == 2 * (a % b)
    IN  IF r2 > b \/ (r2 = b /\ fl % 2 = 1) THEN fl + 1 ELSE fl

\* np.ceil of a/b (a >= 0, b > 0)
CeilDiv(a, b) == (a + b - 1) \div b

RECURSIVE Pow2(_)
Pow2(n) == IF n = 0 THEN 1 ELSE 2 * Pow2(n - 1)

\* POSITIVE_TUNING_RATIO ** -st for st >= 0, in units of 1/SCALE
RECURSIVE PositiveRatio(_)
PositiveRatio(st) ==
    IF st = 0 THEN SCALE
    ELSE RoundHalfEven(PositiveRatio(st - 1) * SCALE, POSITIVE_TUNING_RATIO)

\* interp1d(keys, values, fill_value='extrapolate') evaluated below the
\* table: the line through the two lowest tabulated points
Extrapolate(st) ==
    NEGATIVE_TUNING_RATIOS[-8]
      + (st + 8) * (NEGATIVE_TUNING_RATIOS[-7] - NEGATIVE_TUNING_RATIOS[-8])

\* the value of t chosen by the branches of adjust_pitch, st # 0
TuningRatio(st) ==
    IF 0 > st /\ st >= -8 THEN NEGATIVE_TUNING_RATIOS[st]
    ELSE IF st > 0 THEN PositiveRatio(st)
    ELSE Extrapolate(st)

\* n = int(np.round(len(x) * t))
TargetLen(n, st) == RoundHalfEven(n * TuningRatio(st), SCALE)

\* r = np.linspace(0, len(x) - 1, n).round(): entry e (0-based) of r
LinspaceIndex(xlen, n, e) ==
    IF n = 1 THEN 0 ELSE RoundHalfEven(e * (xlen - 1), n - 1)

\* the number of samples the comprehension over range(n-1) yields
RangeLen(n) == IF n - 1 > 0 THEN n - 1 ELSE 0

\* len(adjust_pitch(x, st)) as a function of len(x)
PitchedLen(xlen, st) ==
    IF st = 0 THEN xlen ELSE RangeLen(TargetLen(xlen, st))

\* adjust_pitch without the early return for st = 0: the offset 0 takes the
\* resampling path with t = POSITIVE_TUNING_RATIO ** 0
adjust_pitch_resamples_zero(x, st) ==
    LET n == TargetLen(Len(x), st)
    IN  [e \in 1..RangeLen(n) |-> x[LinspaceIndex(Len(x), n, e - 1) + 1]]

adjust_pitch(x, st) ==
    IF st = 0 THEN x
    ELSE LET n == TargetLen(Len(x), st)
         IN  [e \in 1..RangeLen(n) |-> x[LinspaceIndex(Len(x), n, e - 1) + 1]]

manual_pitch(x, st) ==
    IF st = 0 THEN x
    ELSE LET n == RoundHalfEven(Len(x) * TuningRatio(st), SCALE)
         IN  [e \in 1..RangeLen(n) |-> x[LinspaceIndex(Len(x), n, e - 1) + 1]]

(***************************************************************************)
(* Quantizer.                                                              *)
(***************************************************************************)
\* the amplitude u = 1 in sample units; a power of two so that every level
\* of every bit depth up to MaxBits is a whole number of units
U == Pow2(MaxBits)

\* calc_quantize_function: the level sets (midrise, midtread) of a bit depth
calc_quantize_function(quantize_bits) ==
    LET quantization_levels == Pow2(quantize_bits)
        delta_s == (2 * U) \div quantization_levels
    IN  [midrise  |-> [i \in 1..quantization_levels |->
                          -U + (delta_s \div 2) + (i - 1) * delta_s],
         midtread |-> [i \in 1..quantization_levels |->
                          -U + (i - 1) * delta_s]]

\* cKDTree(y).query(v, 1)[1]: the index of a level nearest to v.  Which of
\* two equally near levels the tree reports is not fixed by the program;
\* tie selects it ("lo": the lower index, "hi": the higher).
NearestIndex(v, S, tie) ==
    CHOOSE i \in 1..Len(S) :
        /\ \A j \in 1..Len(S) : Abs(S[i] - v) <= Abs(S[j] - v)
        /\ \A j \in 1..Len(S) :
              Abs(S[j] - v) = Abs(S[i] - v) =>
                  IF tie = "lo" THEN i <= j ELSE j <= i

nearest_values(x, y, tie) == [e \in 1..Len(x) |-> NearestIndex(x[e], y, tie)]

\* q returning the indices of the levels instead of the levels
q_returns_indices(x, S, tie) == nearest_values(x, S, tie)

\* q(x, S, bits): quantized = S.flat[nearest_values(x, S)]
q(x, S, tie) ==
    LET y == nearest_values(x, S, tie)
    IN  [e \in 1..Len(x) |-> S[y[e]]]

(***************************************************************************)
(* Zero-order hold.                                                        *)
(***************************************************************************)
\* .astype(np.float32): the nearest point of the coarser float32 grid,
\* halves to even
ToFloat32(v) == MantissaLoss * RoundHalfEven(v, MantissaLoss)

\* np.tile in place of np.repeat: the whole buffer repeated
zero_order_hold_tiled(y, zoh_multiplier) ==
    [i \in 1..(Len(y) * zoh_multiplier) |->
        ToFloat32(y[((i - 1) % Len(y)) + 1])]

\* np.repeat(y, zoh_multiplier).astype(np.float32)
zero_order_hold(y, zoh_multiplier) ==
    [i \in 1..(Len(y) * zoh_multiplier) |->
        ToFloat32(y[((i - 1) \div zoh_multiplier) + 1])]

(***************************************************************************)
(* Rate conversions (lengths).                                             *)
(***************************************************************************)
\* int(seconds * (target_sr * factor)) + 1 with seconds = n / input_sr.
\* For the rates of the program the double-precision product has the whole
\* part of the exact product for every n below 26000 samples.
TargetSamples(n, input_sr, target_sr, factor) ==
    ((n * (target_sr * factor)) \div input_sr) + 1

\* the decimation left out
DecimatedLen_skipped(n, factor) == n

\* scipy.signal.decimate(x, factor) keeps every factor-th sample of the
\* filtered signal, starting with the first
DecimatedLen(n, factor) == CeilDiv(n, factor)

\* decimate's zero-phase IIR filter pads each end with 27 samples and
\* rejects a signal that is not longer than the padding
DecimatePadLen == 27

\* len(scipy_resample(y, input_sr, target_sr, factor))
scipy_resample_len(n, input_sr, target_sr, factor) ==
    DecimatedLen(TargetSamples(n, input_sr, target_sr, factor), factor)

\* len(librosa_resample(y, orig_sr, target_sr)): ceil(n * target_sr/orig_sr)
librosa_resample_len(n, orig_sr, target_sr) == CeilDiv(n * target_sr, orig_sr)

\* len(librosa_time_stretch(y, rate)) with rate = num/den:
\* int(round(len(y) / rate))
time_stretch_len(n, num, den) == RoundHalfEven(n * den, num)

(***************************************************************************)
(* Writer.  An output path is a sequence of components; the path string is *)
(* their concatenation.  No component occurs inside another or across a    *)
(* boundary, so "'.mp3' in output_file_path" is membership of ".mp3".      *)
(***************************************************************************)
PathTokens == {"out", ".mp3", ".wav", ".ogg", ".flac", ".txt"}
KnownExtensions == {"mp3", "wav", "ogg", "flac"}

Contains(path, tok) == \E i \in 1..Len(path) : path[i] = tok

\* the text after the last '.' of the path: the extension of the file
Extension(path) ==
    LET last == path[Len(path)]
    IN  CASE last = ".mp3"  -> "mp3"
          [] last = ".wav"  -> "wav"
          [] last = ".ogg"  -> "ogg"
          [] last = ".flac" -> "flac"
          [] last = ".txt"  -> "txt"
          [] OTHER -> IF \E i \in 1..Len(path) : path[i] # "out"
                      THEN "other" ELSE ""

\* soundfile.write(file, data, sr, subtype=..., format=...): with no format
\* given the format is taken from the extension of the file name and an
\* extension that names no format is rejected; a (format, subtype) pair the
\* encoder does not support is rejected; a rejected call creates no file.
sf_write(path, frames, format, subtype) ==
    LET ext == Extension(path)
        fmt == IF format # "" THEN format ELSE ext
        known == fmt \in {"wav", "flac", "ogg", "mp3"}
        valid == \/ fmt \in {"wav", "flac"} /\ subtype = "PCM_16"
                 \/ fmt = "ogg" /\ subtype = "vorbis"
    IN  IF known /\ valid
        THEN [raised |-> FALSE,
              files |-> {[path |-> path, format |-> fmt, frames |-> frames]}]
        ELSE [raised |-> TRUE, files |-> {}]

\* write_mp3: AudioSegment(...).export(f, format="mp3", bitrate="320k")
write_mp3(f, frames) ==
    [raised |-> FALSE,
     files |-> {[path |-> f, format |-> "mp3", frames |-> frames]}]

\* write_audio(output, output_file_path, normalize_output); librosa_normalize
\* rescales the samples and keeps their number
write_audio(frames, output_file_path, normalize_output) ==
    IF Contains(output_file_path, ".mp3")
    THEN [logs |-> <<>>] @@ write_mp3(output_file_path, frames)
    ELSE IF Contains(output_file_path, ".wav")
    THEN [logs |-> <<>>] @@ sf_write(output_file_path, frames, "", "PCM_16")
    ELSE IF Contains(output_file_path, ".ogg")
    THEN [logs |-> <<>>] @@ sf_write(output_file_path, frames, "ogg", "vorbis")
    ELSE IF Contains(output_file_path, ".flac")
    THEN [logs |-> <<>>] @@ sf_write(output_file_path, frames, "flac", "PCM_16")
    ELSE [logs |-> <<"error: output file type unsupported">>]
           @@ sf_write(Append(output_file_path, ".wav"), frames, "", "PCM_16")

(***************************************************************************)
(* FnSpec: the stage functions applied to bounded inputs.                  *)
(***************************************************************************)
Semitones == (-MaxDown)..MaxUp
SampleValues == {-3, 0, 6}
Buffers == UNION {[1..n -> SampleValues] : n \in 0..MaxBufLen}
QSamples == (-U - 2)..(U + 2)
QBuffers == UNION {[1..n -> QSamples] : n \in 0..MaxQLen}
Paths == UNION {[1..n -> PathTokens] : n \in 1..MaxPathLen}

Calls ==
    {[fn |-> f, x |-> x, st |-> st] :
        f \in {"adjust_pitch", "manual_pitch"}, x \in Buffers, st \in Semitones}
    \cup {[fn |-> "zero_order_hold", x |-> x, k |-> k] :
            x \in Buffers, k \in 1..MaxK}
    \cup {[fn |-> "q", x |-> x, bits |-> b, align |-> a] :
            x \in QBuffers, b \in 1..MaxBits, a \in {"midrise", "midtread"}}
    \cup {[fn |-> f, n |-> n] :
            f \in {"scipy_resample", "librosa_resample"}, n \in 1..MaxRateLen}
    \cup {[fn |-> "write_audio", path |-> p, frames |-> 1, normalize |-> nz] :
            p \in Paths, nz \in BOOLEAN}

\* the pipeline is idle in FnSpec
PipeIdle ==
    /\ cfg = [n |-> 0]
    /\ pc = "idle"
    /\ chan = 0
    /\ ppc = "idle"
    /\ len = <<0, 0>>
    /\ resampledLen = <<0, 0>>
    /\ trace = <<<<>>, <<>>>>
    /\ ofilter = <<"none", "none">>
    /\ stretches = <<<<>>, <<>>>>
    /\ errlog = <<>>
    /\ files = {}
    /\ writeCalls = 0
    /\ raisedAt = "none"

FnInit ==
    /\ call \in Calls
    /\ rets = <<>>
    /\ PipeIdle

CallAdjustPitch ==
    /\ call.fn = "adjust_pitch"
    /\ rets = <<>>
    /\ rets' = <<adjust_pitch(call.x, call.st)>>
    /\ UNCHANGED <<call, pipevars>>

CallManualPitch ==
    /\ call.fn = "manual_pitch"
    /\ rets = <<>>
    /\ rets' = <<manual_pitch(call.x, call.st)>>
    /\ UNCHANGED <<call, pipevars>>

CallZeroOrderHold ==
    /\ call.fn = "zero_order_hold"
    /\ rets = <<>>
    /\ rets' = <<zero_order_hold(call.x, call.k)>>
    /\ UNCHANGED <<call, pipevars>>

\* q applied to the buffer, then to its own result
CallQ ==
    /\ call.fn = "q"
    /\ Len(rets) < 2
    /\ \E tie \in {"lo", "hi"} :
          LET S == calc_quantize_function(call.bits)[call.align]
              arg == IF rets = <<>> THEN call.x ELSE rets[Len(rets)]
          IN  rets' = Append(rets, q(arg, S, tie))
    /\ UNCHANGED <<call, pipevars>>

\* decimate may reject a signal no longer than its padding
DecimateRaises(target_samples) ==
    IF target_samples <= DecimatePadLen THEN BOOLEAN ELSE {FALSE}

CallScipyResample ==
    /\ call.fn = "scipy_resample"
    /\ rets = <<>>
    /\ \E raises \in DecimateRaises(
             TargetSamples(call.n, INPUT_SR, SP_SR, RESAMPLE_MULTIPLIER)) :
          rets' = <<[raised |-> raises,
                     n |-> IF raises THEN 0
                           ELSE scipy_resample_len(call.n, INPUT_SR, SP_SR,
                                                   RESAMPLE_MULTIPLIER)]>>
    /\ UNCHANGED <<call, pipevars>>

CallLibrosaResample ==
    /\ call.fn = "librosa_resample"
    /\ rets = <<>>
    /\ rets' = <<[raised |-> FALSE,
                  n |-> librosa_resample_len(call.n, SP_SR * ZOH_MULTIPLIER,
                                             OUTPUT_SR)]>>
    /\ UNCHANGED <<call, pipevars>>

CallWriteAudio ==
    /\ call.fn = "write_audio"
    /\ rets = <<>>
    /\ rets' = <<write_audio(call.frames, call.path, call.normalize)>>
    /\ UNCHANGED <<call, pipevars>>

FnNext ==
    \/ CallAdjustPitch
    \/ CallManualPitch
    \/ CallZeroOrderHold
    \/ CallQ
    \/ CallScipyResample
    \/ CallLibrosaResample
    \/ CallWriteAudio

FnSpec == FnInit /\ [][FnNext]_vars

(***************************************************************************)
(* Spec: a run of pitch().                                                 *)
(***************************************************************************)
\* custom_time_stretch as a fraction <<numerator, denominator>>
CustomStretches == {<<0, 1>>, <<1, 1>>, <<2, 1>>}
InputLens == {1} \cup (50..MaxInputLen)
PipeSemitones == {-MaxDown, 0, MaxUp}
PipePaths == {<<"out", ".wav">>, <<"out", ".wav", ".ogg">>}
FilterTypeNames == {"lp1", "lp2", "moog", "bogus"}
LogLevelNames == {"INFO", "bogus"}
log_levels == {"INFO", "DEBUG", "WARNING", "ERROR", "CRITICAL"}

Configs ==
  { c \in
    [st : PipeSemitones,
     log_level : LogLevelNames,
     input_filter : BOOLEAN,
     quantize : BOOLEAN,
     time_stretch : BOOLEAN,
     output_filter : BOOLEAN,
     normalize_output : {FALSE},
     custom_time_stretch : CustomStretches,
     output_filter_type : FilterTypeNames,
     output_file_path : PipePaths,
     \* the loaded (or passed) array: y.ndim = 2, its length per channel,
     \* and whether each channel holds finite samples only
     stereo : BOOLEAN,
     n : InputLens,
     finite : [1..2 -> BOOLEAN]] :
    c.stereo \/ c.finite[2] }

Init ==
    /\ call = [fn |-> "pitch"]
    /\ rets = <<>>
    /\ cfg \in Configs
    /\ pc = "validate"
    /\ chan = 0
    /\ ppc = "idle"
    /\ len = <<0, 0>>
    /\ resampledLen = <<0, 0>>
    /\ trace = <<<<>>, <<>>>>
    /\ ofilter = <<"none", "none">>
    /\ stretches = <<<<>>, <<>>>>
    /\ errlog = <<>>
    /\ files = {}
    /\ writeCalls = 0
    /\ raisedAt = "none"

InSeq(sq, v) == \E i \in 1..Len(sq) : sq[i] = v

\* validation that raises on an unknown filter type
pitch_validate_raises ==
    /\ pc = "validate"
    /\ IF InSeq(OUTPUT_FILTER_TYPES, cfg.output_filter_type)
       THEN pc' = "load" /\ UNCHANGED raisedAt
       ELSE pc' = "raised" /\ raisedAt' = "validate"
    /\ errlog' = errlog
          \o (IF cfg.log_level \notin log_levels
              THEN <<"warn: invalid log-level">> ELSE <<>>)
    /\ UNCHANGED <<fnvars, cfg, chan, ppc, len, resampledLen, trace, ofilter,
                   stretches, files, writeCalls>>

\* pitch(), lines 321-332: the log level and the filter type are checked,
\* complaints are logged and the run goes on
pitch_validate ==
    /\ pc = "validate"
    /\ errlog' = errlog
          \o (IF cfg.log_level \notin log_levels
              THEN <<"warn: invalid log-level">> ELSE <<>>)
          \o (IF ~InSeq(OUTPUT_FILTER_TYPES, cfg.output_filter_type)
              THEN <<"error: invalid output_filter_type",
                     "error: using output_filter_type lp1">>
              ELSE <<>>)
    /\ pc' = "load"
    /\ UNCHANGED <<fnvars, cfg, chan, ppc, len, resampledLen, trace, ofilter,
                   stretches, files, writeCalls, raisedAt>>

\* the second channel read at half its length
ChannelLen_second_halved(n, stereo, c) ==
    IF c = 1 THEN n ELSE IF stereo THEN n \div 2 ELSE 0

\* the samples of channel c of the loaded array
ChannelLen(n, stereo, c) == IF c = 1 \/ stereo THEN n ELSE 0

\* pitch(), lines 334-349/361: the array is taken or loaded and
\* process_array is entered for the first (or only) channel
pitch_load ==
    /\ pc = "load"
    /\ len' = [c \in 1..2 |-> ChannelLen(cfg.n, cfg.stereo, c)]
    /\ pc' = "process"
    /\ chan' = 1
    /\ ppc' = "input_filter"
    /\ UNCHANGED <<fnvars, cfg, resampledLen, trace, ofilter, stretches,
                   errlog, files, writeCalls, raisedAt>>

\* a stage of process_array is entered for the current channel
Ran(stage) == trace' = [trace EXCEPT ![chan] = Append(@, stage)]

\* an exception leaves process_array and pitch()
Raise(stage) ==
    /\ pc' = "raised"
    /\ raisedAt' = stage
    /\ ppc' = "idle"

\* a library routine that validates its input may reject a buffer holding
\* NaN or infinity
RejectsNonFinite(c) == IF cfg.finite[c] THEN {FALSE} ELSE BOOLEAN

\* process_array, lines 217-220
stage_input_filter ==
    /\ pc = "process" /\ ppc = "input_filter"
    /\ IF cfg.input_filter THEN Ran("input_filter") ELSE UNCHANGED trace
    /\ ppc' = "resample_in"
    /\ UNCHANGED <<fnvars, cfg, pc, chan, len, resampledLen, ofilter,
                   stretches, errlog, files, writeCalls, raisedAt>>

\* process_array, line 222
stage_resample_in ==
    /\ pc = "process" /\ ppc = "resample_in"
    /\ Ran("resample_in")
    /\ \E raises \in DecimateRaises(TargetSamples(len[chan], INPUT_SR, SP_SR,
                                                  RESAMPLE_MULTIPLIER)) :
          IF raises
          THEN /\ Raise("resample_in")
               /\ UNCHANGED <<len, resampledLen>>
          ELSE LET m == scipy_resample_len(len[chan], INPUT_SR, SP_SR,
                                           RESAMPLE_MULTIPLIER)
               IN  /\ len' = [len EXCEPT ![chan] = m]
                   /\ resampledLen' = [resampledLen EXCEPT ![chan] = m]
                   /\ ppc' = "quantize"
                   /\ UNCHANGED <<pc, raisedAt>>
    /\ UNCHANGED <<fnvars, cfg, chan, ofilter, stretches, errlog, files,
                   writeCalls>>

\* the quantizer run whether or not it is enabled
stage_quantize_always ==
    /\ pc = "process" /\ ppc = "quantize"
    /\ Ran("quantize")
    /\ \E raises \in RejectsNonFinite(chan) :
          IF raises THEN Raise("quantize")
          ELSE ppc' = "pitch" /\ UNCHANGED <<pc, raisedAt>>
    /\ UNCHANGED <<fnvars, cfg, chan, len, resampledLen, ofilter, stretches,
                   errlog, files, writeCalls>>

\* process_array, lines 224-230
stage_quantize ==
    /\ pc = "process" /\ ppc = "quantize"
    /\ IF cfg.quantize
       THEN /\ Ran("quantize")
            /\ \E raises \in RejectsNonFinite(chan) :
                  IF raises THEN Raise("quantize")
                  ELSE ppc' = "pitch" /\ UNCHANGED <<pc, raisedAt>>
       ELSE /\ ppc' = "pitch"
            /\ UNCHANGED <<trace, pc, raisedAt>>
    /\ UNCHANGED <<fnvars, cfg, chan, len, resampledLen, ofilter, stretches,
                   errlog, files, writeCalls>>

\* process_array, line 232
stage_pitch ==
    /\ pc = "process" /\ ppc = "pitch"
    /\ Ran("pitch")
    /\ len' = [len EXCEPT ![chan] = PitchedLen(@, cfg.st)]
    /\ ppc' = "time_stretch"
    /\ UNCHANGED <<fnvars, cfg, pc, chan, resampledLen, ofilter, stretches,
                   errlog, files, writeCalls, raisedAt>>

\* the custom factor tested before the time_stretch flag
StretchMode_custom_first(time_stretch, custom_time_stretch) ==
    IF custom_time_stretch[1] = custom_time_stretch[2] /\ time_stretch
    THEN "native"
    ELSE IF custom_time_stretch[1] # 0
            /\ custom_time_stretch[1] # custom_time_stretch[2]
    THEN "custom"
    ELSE "original"

\* the branch of lines 234-249 taken
StretchMode(time_stretch, custom_time_stretch) ==
    IF custom_time_stretch[1] = custom_time_stretch[2] /\ time_stretch
    THEN "native"
    ELSE IF custom_time_stretch[1] = 0 \/ ~time_stretch
    THEN "original"
    ELSE "custom"

\* the rates of the librosa_time_stretch calls of a branch, in order, for a
\* pitched buffer of p samples made from r resampled samples
StretchRates(mode, p, r, custom_time_stretch) ==
    CASE mode = "native" -> <<>>
      [] mode = "original" -> <<(<<p, r>>)>>
      [] mode = "custom" -> <<(<<p, r>>), custom_time_stretch>>

\* the length after the calls, from n samples
RECURSIVE StretchedLen(_, _)
StretchedLen(n, rates) ==
    IF rates = <<>> THEN n
    ELSE StretchedLen(time_stretch_len(n, Head(rates)[1], Head(rates)[2]),
                      Tail(rates))

\* librosa_time_stretch rejects a rate that is not positive
RECURSIVE StretchRejects(_, _)
StretchRejects(n, rates) ==
    IF rates = <<>> THEN FALSE
    ELSE \/ Head(rates)[1] <= 0
         \/ StretchRejects(time_stretch_len(n, Head(rates)[1], Head(rates)[2]),
                           Tail(rates))

\* process_array, lines 234-249
stage_time_stretch ==
    /\ pc = "process" /\ ppc = "time_stretch"
    /\ LET mode == StretchMode(cfg.time_stretch, cfg.custom_time_stretch)
           rates == StretchRates(mode, len[chan], resampledLen[chan],
                                 cfg.custom_time_stretch)
       IN  IF mode = "native"
           THEN /\ ppc' = "zoh"
                /\ UNCHANGED <<trace, len, stretches, pc, raisedAt>>
           ELSE /\ Ran("time_stretch")
                /\ \E raises \in RejectsNonFinite(chan) :
                      IF raises \/ StretchRejects(len[chan], rates)
                      THEN /\ Raise("time_stretch")
                           /\ UNCHANGED <<len, stretches>>
                      ELSE /\ len' = [len EXCEPT
                                        ![chan] = StretchedLen(@, rates)]
                           /\ stretches' = [stretches EXCEPT ![chan] = rates]
                           /\ ppc' = "zoh"
                           /\ UNCHANGED <<pc, raisedAt>>
    /\ UNCHANGED <<fnvars, cfg, chan, resampledLen, ofilter, errlog, files,
                   writeCalls>>

\* process_array, line 252
stage_zero_order_hold ==
    /\ pc = "process" /\ ppc = "zoh"
    /\ Ran("zoh")
    /\ len' = [len EXCEPT ![chan] = @ * ZOH_MULTIPLIER]
    /\ ppc' = "resample_out"
    /\ UNCHANGED <<fnvars, cfg, pc, chan, resampledLen, ofilter, stretches,
                   errlog, files, writeCalls, raisedAt>>

\* process_array, lines 256-260; librosa rejects a signal too short to
\* yield one output sample
stage_resample_out ==
    /\ pc = "process" /\ ppc = "resample_out"
    /\ Ran("resample_out")
    /\ LET m == librosa_resample_len(len[chan], SP_SR * ZOH_MULTIPLIER,
                                     OUTPUT_SR)
       IN  \E raises \in RejectsNonFinite(chan) :
              IF raises \/ m < 1
              THEN /\ Raise("resample_out")
                   /\ UNCHANGED len
              ELSE /\ len' = [len EXCEPT ![chan] = m]
                   /\ ppc' = "output_filter"
                   /\ UNCHANGED <<pc, raisedAt>>
    /\ UNCHANGED <<fnvars, cfg, chan, resampledLen, ofilter, stretches,
                   errlog, files, writeCalls>>

\* the filter the if/elif/else of lines 263-272 applies
SelectedOutputFilter(output_filter_type) ==
    IF output_filter_type = OUTPUT_FILTER_TYPES[1] THEN "lp1"
    ELSE IF output_filter_type = OUTPUT_FILTER_TYPES[2] THEN "lp2"
    ELSE "moog"

\* pitch() going straight to write_audio after the first channel
AfterChannel_writes_early(stereo, c) ==
    [pc |-> IF stereo /\ c = 2 THEN "hstack" ELSE "write",
     chan |-> c, ppc |-> "idle"]

\* pitch(), lines 349-365, where process_array returns for channel c: the
\* second channel is processed next, or the channels are stacked, or the
\* mono result is written
AfterChannel(stereo, c) ==
    IF stereo /\ c = 1
    THEN [pc |-> "process", chan |-> 2, ppc |-> "input_filter"]
    ELSE [pc |-> IF stereo THEN "hstack" ELSE "write",
          chan |-> c, ppc |-> "idle"]

\* process_array, lines 262-277, and the return into pitch()
stage_output_filter ==
    /\ pc = "process" /\ ppc = "output_filter"
    /\ IF cfg.output_filter
       THEN /\ Ran("output_filter")
            /\ ofilter' = [ofilter EXCEPT
                             ![chan] = SelectedOutputFilter(cfg.output_filter_type)]
       ELSE UNCHANGED <<trace, ofilter>>
    /\ LET next == AfterChannel(cfg.stereo, chan)
       IN  pc' = next.pc /\ chan' = next.chan /\ ppc' = next.ppc
    /\ UNCHANGED <<fnvars, cfg, len, resampledLen, stretches, errlog, files,
                   writeCalls, raisedAt>>

\* pitch(), line 358: np.hstack of two columns raises unless they have the
\* same number of rows
pitch_hstack ==
    /\ pc = "hstack"
    /\ IF len[1] = len[2]
       THEN pc' = "write" /\ UNCHANGED <<raisedAt, ppc>>
       ELSE Raise("hstack")
    /\ UNCHANGED <<fnvars, cfg, chan, len, resampledLen, trace, ofilter,
                   stretches, errlog, files, writeCalls>>

\* pitch(), lines 359 and 365: write_audio
pitch_write_audio ==
    /\ pc = "write"
    /\ LET r == write_audio(len[1], cfg.output_file_path, cfg.normalize_output)
       IN  /\ files' = files \cup r.files
           /\ errlog' = errlog \o r.logs
           /\ IF r.raised
              THEN Raise("write_audio")
              ELSE pc' = "done" /\ UNCHANGED <<raisedAt, ppc>>
    /\ writeCalls' = writeCalls + 1
    /\ UNCHANGED <<fnvars, cfg, chan, len, resampledLen, trace, ofilter,
                   stretches>>

Next ==
    \/ pitch_validate
    \/ pitch_load
    \/ stage_input_filter
    \/ stage_resample_in
    \/ stage_quantize
    \/ stage_pitch
    \/ stage_time_stretch
    \/ stage_zero_order_hold
    \/ stage_resample_out
    \/ stage_output_filter
    \/ pitch_hstack
    \/ pitch_write_audio

Spec == Init /\ [][Next]_vars

\* CLAIMS

(***************************************************************************)
(* C1.  For a non-empty buffer x and an offset st other than 0, the buffer *)
(* returned by adjust_pitch / manual_pitch has exactly                     *)
(* round(len(x) * ratio(st)) samples.                                      *)
(***************************************************************************)
C1_PitchedLengthIsRounded ==
    (/\ call.fn \in {"adjust_pitch", "manual_pitch"}
     /\ rets # <<>>
     /\ Len(call.x) > 0
     /\ call.st # 0)
    => Len(rets[1]) = RoundHalfEven(Len(call.x) * TuningRatio(call.st), SCALE)

(***************************************************************************)
(* C3.  adjust_pitch(x, 0) returns x: the same length and the same samples *)
(* in the same order.                                                      *)
(***************************************************************************)
C3_ZeroOffsetIsIdentity ==
    (call.fn = "adjust_pitch" /\ rets # <<>> /\ call.st = 0)
    => /\ Len(rets[1]) = Len(call.x)
       /\ \A i \in 1..Len(call.x) : rets[1][i] = call.x[i]

C3_Witness ==
    /\ call.fn = "adjust_pitch"
    /\ call.st = 0
    /\ call.x = <<6, -3, 0>>
    /\ rets = <<(<<6, -3, 0>>)>>

(***************************************************************************)
(* C4 as stated.  zero_order_hold(y, k) has len(y) * k samples and the k   *)
(* samples at positions i*k .. i*k+k-1 all equal y[i].                     *)
(***************************************************************************)
C4_HeldSamplesEqualInput ==
    (call.fn = "zero_order_hold" /\ rets # <<>>)
    => /\ Len(rets[1]) = Len(call.x) * call.k
       /\ \A i \in 1..Len(call.x) : \A j \in 1..call.k :
             rets[1][(i - 1) * call.k + j] = call.x[i]

(***************************************************************************)
(* C4 amended.  zero_order_hold(y, k) has len(y) * k samples and the k     *)
(* samples at positions i*k .. i*k+k-1 all equal y[i] converted to single  *)
(* precision.                                                              *)
(***************************************************************************)
C4_HeldSamplesEqualFloat32OfInput ==
    (call.fn = "zero_order_hold" /\ rets # <<>>)
    => /\ Len(rets[1]) = Len(call.x) * call.k
       /\ \A i \in 1..Len(call.x) : \A j \in 1..call.k :
             rets[1][(i - 1) * call.k + j] = ToFloat32(call.x[i])

C4_Witness ==
    /\ call.fn = "zero_order_hold"
    /\ call.k = 2
    /\ call.x = <<6, 0, -3>>
    /\ rets # <<>>
    /\ Len(rets[1]) = 6
    /\ rets[1][1] = rets[1][2]
    /\ rets[1][1] # call.x[1]

(***************************************************************************)
(* C5.  Quantization is idempotent: q(q(x, S), S) = q(x, S) sample for     *)
(* sample, q(x, S) is as long as x and each of its samples is a level of S.*)
(***************************************************************************)
C5_QuantizeIdempotent ==
    (call.fn = "q" /\ rets # <<>>)
    => LET S == calc_quantize_function(call.bits)[call.align]
       IN  /\ Len(rets[1]) = Len(call.x)
           /\ \A e \in 1..Len(rets[1]) : \E i \in 1..Len(S) : rets[1][e] = S[i]
           /\ Len(rets) = 2 =>
                 /\ Len(rets[2]) = Len(rets[1])
                 /\ \A e \in 1..Len(rets[1]) : rets[2][e] = rets[1][e]

\* a buffer with a sample halfway between two levels and a sample beyond
\* the top level, quantized twice
C5_Witness ==
    /\ call.fn = "q"
    /\ call.bits = 2
    /\ call.align = "midtread"
    /\ call.x = <<-U + (U \div 4), U + 2>>
    /\ Len(rets) = 2
    /\ rets[1][1] # call.x[1]

(***************************************************************************)
(* C6.  Each rate conversion yields a length within one sample of          *)
(* round(input_length / input_rate * target_rate): scipy_resample from     *)
(* 96000 Hz to 26040 Hz and the output resample from 104160 Hz to 48000 Hz.*)
(***************************************************************************)
C6_ResampledLengthWithinOne ==
    /\ (call.fn = "scipy_resample" /\ rets # <<>> /\ ~rets[1].raised)
       => Abs(rets[1].n - RoundHalfEven(call.n * SP_SR, INPUT_SR)) <= 1
    /\ (call.fn = "librosa_resample" /\ rets # <<>> /\ ~rets[1].raised)
       => Abs(rets[1].n
              - RoundHalfEven(call.n * OUTPUT_SR, SP_SR * ZOH_MULTIPLIER)) <= 1

\* 400 samples are 217 samples at 52080 Hz exactly; the result is one more
\* than the rounded length
C6_Witness ==
    /\ call.fn = "scipy_resample"
    /\ call.n = 400
    /\ rets # <<>>
    /\ ~rets[1].raised
    /\ rets[1].n = RoundHalfEven(call.n * SP_SR, INPUT_SR) + 1

(***************************************************************************)
(* C10.  write_audio takes the format from the extension of the output     *)
(* path among wav, mp3, ogg, flac and writes exactly one file in that      *)
(* format; for any other extension it writes a WAV file to the path with   *)
(* '.wav' appended and reports it; it never ends without writing.          *)
(***************************************************************************)
C10_FormatFollowsExtension ==
    (call.fn = "write_audio" /\ rets # <<>>)
    => LET r == rets[1]
           ext == Extension(call.path)
       IN  /\ ~r.raised
           /\ IF ext \in KnownExtensions
              THEN r.files = {[path |-> call.path, format |-> ext,
                               frames |-> call.frames]}
              ELSE /\ r.files = {[path |-> Append(call.path, ".wav"),
                                  format |-> "wav", frames |-> call.frames]}
                   /\ r.logs # <<>>

(***************************************************************************)
(* Vocabulary of the claims about a run of pitch().                        *)
(***************************************************************************)
UnknownFilterType == ~InSeq(OUTPUT_FILTER_TYPES, cfg.output_filter_type)
NoStageRan == trace = <<<<>>, <<>>>>
Channels == IF cfg.stereo THEN {1, 2} ELSE {1}
StageOrder == <<"input_filter", "resample_in", "quantize", "pitch",
                "time_stretch", "zoh", "resample_out", "output_filter">>
StageNames == {StageOrder[i] : i \in 1..Len(StageOrder)}

\* the stage is mandatory or switched on by the configuration
StageEnabled(stage) ==
    CASE stage = "input_filter" -> cfg.input_filter
      [] stage = "quantize" -> cfg.quantize
      [] stage = "time_stretch" ->
            ~(cfg.time_stretch
              /\ cfg.custom_time_stretch[1] = cfg.custom_time_stretch[2])
      [] stage = "output_filter" -> cfg.output_filter
      [] OTHER -> TRUE

ExpectedStages == SelectSeq(StageOrder, StageEnabled)

IsPrefix(a, b) == Len(a) <= Len(b) /\ \A i \in 1..Len(a) : a[i] = b[i]

\* process_array has returned for channel c
Returned(c) ==
    \/ pc \in {"hstack", "write", "done"}
    \/ pc = "raised" /\ raisedAt \in {"hstack", "write_audio"}
    \/ pc = "process" /\ chan > c

C8_StagesInFixedOrder ==
    \A c \in Channels :
        /\ IsPrefix(trace[c], ExpectedStages)
        /\ Returned(c) => trace[c] = ExpectedStages

C8_Witness ==
    /\ pc = "done"
    /\ cfg.stereo
    /\ cfg.input_filter /\ ~cfg.quantize /\ cfg.output_filter
    /\ ~cfg.time_stretch
    /\ trace[2] = <<"input_filter", "resample_in", "pitch", "time_stretch",
                    "zoh", "resample_out", "output_filter">>

(***************************************************************************)
(* C9.  In every run of pitch() write_audio is invoked at most once and    *)
(* only after process_array has returned for every channel of the input;   *)
(* when a stage of a channel raises, no output file is written.            *)
(***************************************************************************)
C9_WriteOnceAfterAllChannels ==
    /\ writeCalls <= 1
    /\ (writeCalls = 1 \/ pc = "write")
          => \A c \in Channels : Returned(c) /\ trace[c] = ExpectedStages
    /\ (pc = "raised" /\ raisedAt \in StageNames)
          => (writeCalls = 0 /\ files = {})

\* the first channel went through, the second raised in its last stages
C9_Witness ==
    /\ cfg.stereo
    /\ pc = "raised"
    /\ raisedAt = "resample_out"
    /\ chan = 2
    /\ trace[1] = ExpectedStages
    /\ writeCalls = 0
    /\ files = {}

(***************************************************************************)
(* Vocabulary of the claims about the time-stretch stage.                  *)
(***************************************************************************)
\* the time-stretch stage of channel c has just been passed
StretchStagePassed(c) == pc = "process" /\ chan = c /\ ppc = "zoh"

\* the pitched buffer the stage received, from the resampled one
PitchedOf(c) == PitchedLen(resampledLen[c], cfg.st)

\* the rate len(pitched) / len(resampled) as a fraction
BackToOriginal(c) == <<PitchedOf(c), resampledLen[c]>>

DeviceNative ==
    cfg.time_stretch /\ cfg.custom_time_stretch[1] = cfg.custom_time_stretch[2]

CustomFactorGiven ==
    /\ cfg.custom_time_stretch[1] # cfg.custom_time_stretch[2]
    /\ cfg.custom_time_stretch[1] # 0

(***************************************************************************)
(* C11 as stated.  In device-native mode (time_stretch true,               *)
(* custom_time_stretch 1.0) no stretch is applied and the pitched buffer   *)
(* is passed on unchanged; whenever a custom factor is given               *)
(* (custom_time_stretch neither 1.0 nor 0.0) the buffer is stretched back  *)
(* to original length and then by the custom factor; otherwise it is       *)
(* stretched exactly once with rate len(pitched) / len(resampled).         *)
(***************************************************************************)
C11_StretchFollowsRequestedMode ==
    \A c \in Channels :
        StretchStagePassed(c)
        => IF DeviceNative
           THEN stretches[c] = <<>> /\ len[c] = PitchedOf(c)
           ELSE IF CustomFactorGiven
           THEN stretches[c] = <<BackToOriginal(c), cfg.custom_time_stretch>>
           ELSE stretches[c] = <<BackToOriginal(c)>>

(***************************************************************************)
(* C11 amended.  In device-native mode no stretch is applied and the       *)
(* pitched buffer is passed on unchanged; when time_stretch is true and a  *)
(* custom factor is given the buffer is stretched back to original length  *)
(* and then by the custom factor; in every other case, a custom factor     *)
(* given with time_stretch false included, it is stretched exactly once    *)
(* with rate len(pitched) / len(resampled).                                *)
(***************************************************************************)
C11_StretchFollowsFlagThenFactor ==
    \A c \in Channels :
        StretchStagePassed(c)
        => IF DeviceNative
           THEN stretches[c] = <<>> /\ len[c] = PitchedOf(c)
           ELSE IF cfg.time_stretch /\ CustomFactorGiven
           THEN stretches[c] = <<BackToOriginal(c), cfg.custom_time_stretch>>
           ELSE stretches[c] = <<BackToOriginal(c)>>

\* a custom factor of 2 with time_stretch true: two stretches, the second
\* halving the restored length
C11_Witness ==
    /\ StretchStagePassed(1)
    /\ cfg.time_stretch
    /\ cfg.custom_time_stretch = <<2, 1>>
    /\ cfg.st # 0
    /\ Len(stretches[1]) = 2
    /\ stretches[1][2] = <<2, 1>>
    /\ len[1] = RoundHalfEven(resampledLen[1], 2)
    /\ len[1] > 0

====
